---- MODULE Spec2Model ----
(***************************************************************************)
(* Model of the helper app's resilient network-access layer.               *)
(*                                                                         *)
(* ApiClient (core/api/client): request() with its pre-flight cache and    *)
(* cooldown checks, the retry loop, the 429 cooldown policy, the           *)
(* single-flight token refresh and the non-ok / ok / network-error exits.  *)
(*                                                                         *)
(* AuthProvider (core/auth): checkAuth(), login(), logout().               *)
(*                                                                         *)
(* SocketClient (core/socket/client): connect(), disconnect(), on(), off(), *)
(* the handlers connect() installs on a Socket, and the Socket objects     *)
(* io() returns.  axiosClient (core/api/axios): the response interceptor.  *)
(*                                                                         *)
(* Time is Date.now() in milliseconds.  Every action is one synchronous    *)
(* run of the event loop: from the resumption of an await to the next      *)
(* await or return.                                                        *)
(*                                                                         *)
(* Spec        one request() call, every kind of response                  *)
(* SpecRace    overlapping calls that are answered 429, 401 or 403         *)
(* SpecCache   calls to the cached endpoints, in sequence or overlapping   *)
(* SpecFive    five calls issued together, each answered 401 once          *)
(* SpecSocket  the realtime channel, its Socket objects and the pages      *)
(* SpecConnect connect() while the stored token expires                    *)
(* SpecSession token refreshes while the realtime channel is in use        *)
(* SpecHandlers the pages remove handlers of the channel's own events      *)
(* SpecLive    one request() call whose fetches and timers all settle      *)
(* SpecAuth    login(), logout() and checkAuth() with requests in flight   *)
(***************************************************************************)
EXTENDS Integers, Sequences, FiniteSets, TLC

----------------------------------------------------------------------------
(* Bounds of the model *)

Max(a, b) == IF a >= b THEN a ELSE b

\* request() invocations in SpecRace
NumCalls == 2
\* request() invocations in SpecCache
CacheSize == 3
\* request() invocations issued together in SpecFive
FiveCalls == 5
\* 429 and 401 responses that the server sends in SpecRace
MaxRejected == 2
\* 429 responses that the server sends in SpecCache
MaxLimited == 1
\* 401 responses that one call receives in SpecFive
Max401 == 1
\* the wall clock stops advancing here (ms)
MaxNow == 50000
\* Socket objects that io() hands out
MaxTransports == 2
\* connect_error events the transports report
MaxErrors == 6
\* connect_error events while the pages change handlers
MaxFailures == 2
\* request() invocations while the session layer logs in and out
MaxSessionCalls == 3

AllCalls == 1 .. Max(Max(FiveCalls, MaxSessionCalls), Max(NumCalls, CacheSize))

----------------------------------------------------------------------------
(* Program constants *)

maxRetries == 4
InitialBackoff == 1000
CacheTtl == 10000
ActiveServiceCooldown == 5 * 60 * 1000
ServiceResourceCooldown == 45 * 1000
retryWindow == 30000
AuthMeCooldown == 30000
maxReconnectAttempts == 5

----------------------------------------------------------------------------
(* Endpoints, methods, HTTP responses *)

AuthMe == "/auth/me"
ServicesActive == "/services/active"
ServiceById == "/services/1"
HelpersMe == "/helpers/me"
AuthRefresh == "/auth/refresh"
AuthLogoutUrl == "/auth/logout"

Endpoints == {AuthMe, ServicesActive, ServiceById, HelpersMe, AuthRefresh, AuthLogoutUrl}

\* (endpoint, method) pairs that the application requests
Requests ==
    { <<AuthMe, "GET">>, <<ServicesActive, "GET">>, <<ServicesActive, "POST">>,
      <<ServiceById, "GET">>, <<HelpersMe, "GET">> }

\* endpoint.startsWith('/services/')
StartsWithServices(e) == e \in {ServicesActive, ServiceById}

\* A response body as it arrives on the wire.
Body(kind, error, success, payload, text) ==
    [kind |-> kind, error |-> error, success |-> success,
     payload |-> payload, text |-> text]

JsonA == Body("json", "", TRUE, 1, "")
JsonB == Body("json", "", TRUE, 2, "")
JsonErr == Body("json", "db down", FALSE, 0, "")
JsonNoErr == Body("json", "", FALSE, 0, "")
TextBody == Body("text", "", FALSE, 0, "Internal Server Error")
EmptyBody == Body("empty", "", FALSE, 0, "")
\* a response that has no body at all (response.body is null)
NoBody == Body("nobody", "", FALSE, 0, "")
\* the JavaScript value null / undefined
Null == Body("null", "", FALSE, 0, "")

OkBodies == {JsonA, JsonB, EmptyBody}
ErrBodies == {JsonErr, JsonNoErr, TextBody, NoBody}
LimitBodies == {JsonErr, EmptyBody}

\* The Retry-After response header.
Header(kind, n) == [kind |-> kind, n |-> n]
NoHeader == Header("none", 0)
RetryAfterHeaders ==
    { NoHeader, Header("secs", 0), Header("secs", 2), Header("secs", 60),
      Header("date", 3000), Header("junk", 0) }

ErrorStatuses == {500, 404}
AuthStatuses == {401, 403}


----------------------------------------------------------------------------
(* Pure helpers of request() *)

\* data = await response.json(), null when the body is not JSON
ResponseJson(body) == IF body.kind = "json" THEN body ELSE Null

\* response.json() has read the body: the response is disturbed afterwards
BodyUsedAfterJson(body) == body.kind # "nobody"

\* response.clone().text() inside try/catch: clone() throws on a disturbed
\* response and serverMsg stays null; an empty text is null as well
CloneText(body, bodyUsed) ==
    IF bodyUsed THEN "" ELSE body.text

\* `Request failed with status ${response.status}`
FailedWithStatus(status) == "Request failed with status " \o ToString(status)

\* data?.error || `Request failed with status ${response.status}`
ErrOrStatus(data, status) ==
    IF data.error # "" THEN data.error ELSE FailedWithStatus(status)

\* data?.error || serverMsg || `Request failed with status ${response.status}`
ErrMessage(data, serverMsg, status) ==
    IF data.error # "" THEN data.error
    ELSE IF serverMsg # "" THEN serverMsg
    ELSE FailedWithStatus(status)

\* isAuthMe / isActiveService of the pre-flight section
IsAuthMe(e, m) == e = AuthMe /\ m = "GET"
IsActiveService(e, m) == e = ServicesActive /\ m = "GET"
IsCacheable(e, m) == IsAuthMe(e, m) \/ IsActiveService(e, m)

\* an entry of _cache; ts = -1 stands for a missing entry
NoCache == [ts |-> -1, data |-> Null]

\* a cache check that still serves an entry that is exactly 10 s old
CacheFresh_Inclusive(entry, t) == entry # NoCache /\ t - entry.ts <= CacheTtl

\* this._cache[endpoint] && now - this._cache[endpoint].ts < 10_000
CacheFresh(entry, t) == entry # NoCache /\ t - entry.ts < CacheTtl

\* a cooldown check that never short-circuits
CooldownActive_Never(cd, t) == FALSE

\* cd && cd > now
CooldownActive(cd, t) == cd # 0 /\ cd > t

\* waitMs of the 429 branch
WaitMs(h, bo, t) ==
    IF h.kind = "secs" THEN h.n * 1000
    ELSE IF h.kind = "date" THEN Max(0, h.n - t)
    ELSE bo

\* a 401 branch that starts a refresh whether or not one is pending
StartsRefresh_Always(promise) == TRUE

\* if (!this._refreshPromise): a new refresh is started
StartsRefresh(promise) == promise = 0

\* refreshed && attempt < maxRetries
RetriesAfterRefresh(refreshed, att) == refreshed /\ att < maxRetries

\* the results request() resolves to
Fail(error, status) ==
    [shape |-> "envelope", success |-> FALSE, error |-> error,
     status |-> status, body |-> Null]
\* `return data` / `return this._cache[endpoint].data`: the parsed body itself
Raw(data) ==
    [shape |-> "raw", success |-> data.success, error |-> data.error,
     status |-> 0, body |-> data]
NoResult == [shape |-> "none", success |-> FALSE, error |-> "", status |-> 0, body |-> Null]

CooldownMessage == "Client-side cooldown after rate limit"

----------------------------------------------------------------------------
(* SocketClient: events, handlers, tokens *)

Transports == 1 .. MaxTransports

\* events the application subscribes to with on() / off()
ServiceUpdated == "service:updated"
AppEvents == {ServiceUpdated, "connect"}
\* events connect() installs the client's own handlers for
OwnEvents == {"connect", "connect_error", "auth:invalid", "auth:rotated"}
SockEvents == AppEvents \cup OwnEvents
\* events the server pushes
ServerEvents == {ServiceUpdated, "auth:invalid", "auth:rotated"}

\* callbacks of the application, and the closures connect() installs
Callbacks == {"f"}
Own == "own"
HandlerKeys == SockEvents \X (Callbacks \cup {Own})
AppKeys == AppEvents \X Callbacks

\* new Map(): no event has a callback
NoListeners == [ev \in SockEvents |-> {}]

\* the handler list of a Socket: how often each handler is attached per event
NoHandlers == [k \in HandlerKeys |-> 0]

\* a Socket object: none (not created), connecting, connected, closed; errors
\* counts its connect_error events since it was created or last connected
Transport(state, token, handlers) ==
    [state |-> state, token |-> token, handlers |-> handlers, errors |-> 0]
NoTransport == Transport("none", 0, NoHandlers)

\* a token that is not a JWT: atob / JSON.parse throw and connect() proceeds
OpaqueToken == 9
\* the exp claim (seconds) of the access token with this id; -1: no claim
TokenLifetime == 20
JwtExp(tok) == IF tok = OpaqueToken THEN -1 ELSE tok * TokenLifetime

\* an expiry check that lets every token pass
Expired_Never(tok, t) == FALSE

\* typeof payload.exp === 'number' && payload.exp * 1000 < Date.now()
Expired(tok, t) == JwtExp(tok) # -1 /\ JwtExp(tok) * 1000 < t

\* token || accessToken || localStorage 'token' (never written) || refreshToken
TokenToUse(arg, access, refresh) ==
    IF arg # 0 THEN arg ELSE IF access # 0 THEN access ELSE refresh

\* this.socket?.connected
IsConnected(s, tr) == s # 0 /\ tr[s].state = "connected"

\* the handlers of a Socket that connect() has just created: the registered
\* callbacks, then the client's own
AttachAll(ls) ==
    [k \in HandlerKeys |->
        IF k[2] = Own THEN (IF k[1] \in OwnEvents THEN 1 ELSE 0)
        ELSE IF k[2] \in ls[k[1]] THEN 1 ELSE 0]

\* socket.off(event, callback): the first matching handler is removed
DetachOne(h, ev, cb) ==
    [h EXCEPT ![<<ev, cb>>] = IF @ > 0 THEN @ - 1 ELSE 0]

\* socket.off(event): every handler of the event is removed
DetachEvent(h, ev) ==
    [k \in HandlerKeys |-> IF k[1] = ev THEN 0 ELSE h[k]]

\* how often a server event on this Socket invokes each callback
Calls(tr, t, ev) == [cb \in Callbacks |-> tr[t].handlers[<<ev, cb>>]]
NoCalls == [cb \in Callbacks |-> 0]

\* the client's own handler of the event is attached to this Socket
OwnRuns(tr, t, ev) == ev \in OwnEvents /\ tr[t].handlers[<<ev, Own>>] > 0

\* the first Socket object io() has not handed out yet (0: none left)
FreshTransport(tr) ==
    IF \E t \in Transports : tr[t].state = "none"
    THEN CHOOSE t \in Transports :
            tr[t].state = "none" /\ \A u \in Transports : u < t => tr[u].state # "none"
    ELSE 0

\* disconnect(): if (this.socket) { socket.disconnect(); socket = null; clear }
TransportAfterDisconnect(tr, s) ==
    IF s = 0 THEN tr ELSE [tr EXCEPT ![s].state = "closed"]
ListenersAfterDisconnect(ls, s) == IF s = 0 THEN ls ELSE NoListeners

\* what has happened to a callback of the application: never registered,
\* on() called, channel went down since, channel came back since, off()
\* called, torn down (disconnect() by the application, auth:invalid push)
LifeDown(l) ==
    [k \in AppKeys |-> IF l[k] \in {"on", "back"} THEN "down" ELSE l[k]]
LifeBack(l) ==
    [k \in AppKeys |-> IF l[k] = "down" THEN "back" ELSE l[k]]
LifeTorn(l) ==
    [k \in AppKeys |-> IF l[k] \in {"on", "down", "back"} THEN "torn" ELSE l[k]]
Registered(l, k) == l[k] \in {"on", "down", "back"}

\* arguments and outcome of a socket step
SockStep(ev, cb, token, ret, calls) ==
    [event |-> ev, cb |-> cb, token |-> token, ret |-> ret, calls |-> calls]
NoSockStep == SockStep("", "", 0, 0, NoCalls)

----------------------------------------------------------------------------
(* AuthProvider: the locals of a checkAuth run *)

\* pc: idle, or the request the run awaits (getMe, helper, refreshBody,
\* refreshCookie); call: that request; from: where attemptRefresh was called
\* (start: no token, getMe: after getMe failed); blocked: const logoutBlocked
CheckAuth(p, c, from, blocked) ==
    [pc |-> p, call |-> c, from |-> from, blocked |-> blocked]
NoCheck == CheckAuth("idle", 0, "", FALSE)

\* at most one attempt per 10 s
RefreshThrottle == 10000

\* lastRefreshRef.current && now - lastRefreshRef.current < 10000
Throttled(lr, t) == lr # -1 /\ t - lr < RefreshThrottle

----------------------------------------------------------------------------
(* State *)

VARIABLES
    now,            \* Date.now()
    pc,             \* per call: idle, fetch, sleep, refresh, done
    endpoint,       \* per call: the endpoint argument
    method,         \* per call: (options.method || 'GET').toUpperCase()
    attempt,        \* per call: local attempt
    backoff,        \* per call: local backoff
    wakeAt,         \* per call: when its setTimeout fires
    awaiting,       \* per call: the refresh promise it awaits
    tokenSent,      \* per call: bearer token of the fetch in flight
    netCalls,       \* per call: fetches issued to its endpoint
    refreshRetries, \* per call: retries taken after a successful refresh
    n429,           \* per call: 429 responses received
    n401,           \* per call: 401/403 responses received
    errMsg,         \* per call: local errMsg of the 401/403 branch
    authStatus,     \* per call: response.status of the 401/403 response
    result,         \* per call: the value request() resolved to
    cache,          \* this._cache
    cooldowns,      \* this._cooldowns (0: no entry)
    refreshPromise, \* this._refreshPromise (0: null, else the refresh's id)
    refreshInFlight,\* refreshAccessToken() executions that have not settled
    refreshCount,   \* fetches issued to /auth/refresh by refreshAccessToken
    accessToken,    \* localStorage accessToken (0: absent)
    refreshToken,   \* localStorage refreshToken (0: absent)
    href,           \* window.location.href
    rejected,       \* 429, 401 and 403 responses received so far
    socket,         \* SocketClient.socket (0: null, else the transport)
    listeners,      \* SocketClient.listeners, event -> set of callbacks
    reconnectAttempts, \* SocketClient.reconnectAttempts
    transport,      \* the Socket objects io() has returned
    life,           \* per (event, callback): what the application did with it
    lastSock,       \* arguments and outcome of the socket step just taken
    logoutBlock,    \* localStorage logoutBlock (1: set)
    check,          \* the checkAuth run in progress (isCheckingRef and its locals)
    lastRefresh,    \* lastRefreshRef.current (-1: null)
    last            \* the step just taken

callVars == <<pc, endpoint, method, attempt, backoff, wakeAt, awaiting,
              tokenSent, netCalls, refreshRetries, n429, n401, errMsg, authStatus,
              result>>
clientVars == <<cache, cooldowns, refreshPromise, refreshInFlight, refreshCount>>
storeVars == <<accessToken, refreshToken, href>>
socketVars == <<socket, listeners, reconnectAttempts, transport, life, lastSock>>
sessionVars == <<logoutBlock, check, lastRefresh>>
vars == <<now, callVars, clientVars, storeVars, rejected, socketVars, sessionVars, last>>

Step(op, c, status, h, body) ==
    [op |-> op, call |-> c, status |-> status, retryAfter |-> h, body |-> body]

Init ==
    /\ now = 0
    /\ pc = [c \in AllCalls |-> "idle"]
    /\ endpoint = [c \in AllCalls |-> HelpersMe]
    /\ method = [c \in AllCalls |-> "GET"]
    /\ attempt = [c \in AllCalls |-> 0]
    /\ backoff = [c \in AllCalls |-> InitialBackoff]
    /\ wakeAt = [c \in AllCalls |-> 0]
    /\ awaiting = [c \in AllCalls |-> 0]
    /\ tokenSent = [c \in AllCalls |-> 0]
    /\ netCalls = [c \in AllCalls |-> 0]
    /\ refreshRetries = [c \in AllCalls |-> 0]
    /\ n429 = [c \in AllCalls |-> 0]
    /\ n401 = [c \in AllCalls |-> 0]
    /\ errMsg = [c \in AllCalls |-> ""]
    /\ authStatus = [c \in AllCalls |-> 0]
    /\ result = [c \in AllCalls |-> NoResult]
    /\ cache = [e \in Endpoints |-> NoCache]
    /\ cooldowns = [e \in Endpoints |-> 0]
    /\ refreshPromise = 0
    /\ refreshInFlight = {}
    /\ refreshCount = 0
    /\ accessToken = 1
    /\ refreshToken = 1
    /\ href = "/"
    /\ rejected = 0
    /\ socket = 0
    /\ listeners = NoListeners
    /\ reconnectAttempts = 0
    /\ transport = [t \in Transports |-> NoTransport]
    /\ life = [k \in AppKeys |-> "never"]
    /\ lastSock = NoSockStep
    /\ logoutBlock = 0
    /\ check = NoCheck
    /\ lastRefresh = -1
    /\ last = Step("init", 0, 0, NoHeader, Null)

----------------------------------------------------------------------------
(* request(): pre-flight checks and the first fetch *)

\* the call returns v
Return(c, v) ==
    /\ pc' = [pc EXCEPT ![c] = "done"]
    /\ result' = [result EXCEPT ![c] = v]

\* await fetch(url, {..., headers: {...this.getHeaders(), ...}})
IssueFetch(c) ==
    /\ pc' = [pc EXCEPT ![c] = "fetch"]
    /\ netCalls' = [netCalls EXCEPT ![c] = @ + 1]
    /\ tokenSent' = [tokenSent EXCEPT ![c] = accessToken]

\* request() up to its first await or return; tok is the access token that
\* getHeaders() reads
BeginRequestWith(c, e, m, tok) ==
    /\ pc[c] = "idle"
    /\ endpoint' = [endpoint EXCEPT ![c] = e]
    /\ method' = [method EXCEPT ![c] = m]
    \* let attempt = 0; let backoff = 1000
    /\ attempt' = [attempt EXCEPT ![c] = 0]
    /\ backoff' = [backoff EXCEPT ![c] = InitialBackoff]
    /\ refreshRetries' = [refreshRetries EXCEPT ![c] = 0]
    /\ n429' = [n429 EXCEPT ![c] = 0]
    /\ n401' = [n401 EXCEPT ![c] = 0]
    /\ IF IsCacheable(e, m) /\ CacheFresh(cache[e], now)
       THEN /\ Return(c, Raw(cache[e].data))
            /\ netCalls' = [netCalls EXCEPT ![c] = 0]
            /\ UNCHANGED tokenSent
       ELSE IF CooldownActive(cooldowns[e], now)
       THEN /\ Return(c, Fail(CooldownMessage, 0))
            /\ netCalls' = [netCalls EXCEPT ![c] = 0]
            /\ UNCHANGED tokenSent
       ELSE /\ pc' = [pc EXCEPT ![c] = "fetch"]
            /\ netCalls' = [netCalls EXCEPT ![c] = 1]
            /\ tokenSent' = [tokenSent EXCEPT ![c] = tok]
            /\ result' = [result EXCEPT ![c] = NoResult]
    /\ UNCHANGED <<wakeAt, awaiting, errMsg, authStatus, clientVars>>

BeginRequest(c, e, m) == BeginRequestWith(c, e, m, accessToken)

StartRequest(c, e, m) ==
    /\ BeginRequest(c, e, m)
    /\ last' = Step("request", c, 0, NoHeader, Null)
    /\ UNCHANGED <<now, storeVars, rejected, socketVars, sessionVars>>

\* the application calls request(); the invocations are numbered as they start
RequestBy(calls, reqs) ==
    \E c \in calls, r \in reqs :
        /\ \A b \in calls : b < c => pc[b] # "idle"
        /\ StartRequest(c, r[1], r[2])

----------------------------------------------------------------------------
(* The wall clock *)

\* The instants after t at which the program's behaviour changes: a timer
\* is due, a cache entry turns stale, a cooldown runs out.
Deadlines(t) ==
    { d \in { wakeAt[c] : c \in AllCalls }
            \cup { cache[e].ts + CacheTtl : e \in { x \in Endpoints : cache[x] # NoCache } }
            \cup { cooldowns[e] : e \in Endpoints } :
        d > t /\ d <= MaxNow }

\* Time passes.  Date.now() is sampled at the deadlines: between two of them
\* no comparison the program makes changes its outcome.
Advance ==
    \E t \in Deadlines(now) :
        /\ now' = t
        /\ last' = Step("tick", 0, 0, NoHeader, Null)
        /\ UNCHANGED <<callVars, clientVars, storeVars, rejected,
                       socketVars, sessionVars>>

----------------------------------------------------------------------------
(* request(): a response with status 429 *)

\* a 429 branch that leaves the computed wait in place after the last retry
CooldownOn429_NoDefault(e, m, att, waitMs, t) ==
    IF e = ServicesActive /\ m = "GET" THEN t + ActiveServiceCooldown
    ELSE IF StartsWithServices(e) THEN t + Max(waitMs, ServiceResourceCooldown)
    ELSE t + waitMs

\* a 429 branch that treats /services/active like any other service resource
CooldownOn429_NoHotEndpoint(e, m, att, waitMs, t) ==
    IF StartsWithServices(e) THEN t + Max(waitMs, ServiceResourceCooldown)
    ELSE IF att = maxRetries THEN t + retryWindow
    ELSE t + waitMs

\* the value of this._cooldowns[endpoint] when the 429 branch is left
CooldownOn429(e, m, att, waitMs, t) ==
    IF IsActiveService(e, m) THEN t + ActiveServiceCooldown
    ELSE IF StartsWithServices(e) THEN t + Max(waitMs, ServiceResourceCooldown)
    ELSE IF att = maxRetries THEN t + retryWindow
    ELSE t + waitMs

\* a 429 branch that always waits and tries again
ReturnsOn429_Never(e, m, att) == FALSE

\* the 429 branch returns instead of waiting
ReturnsOn429(e, m, att) ==
    IsActiveService(e, m) \/ StartsWithServices(e) \/ att = maxRetries

Handle429(c, h, body) ==
    LET data == ResponseJson(body)
        waitMs == WaitMs(h, backoff[c], now)
        e == endpoint[c]
    IN  /\ pc[c] = "fetch"
        /\ n429' = [n429 EXCEPT ![c] = @ + 1]
        /\ rejected' = rejected + 1
        /\ cooldowns' = [cooldowns EXCEPT
                            ![e] = CooldownOn429(e, method[c], attempt[c], waitMs, now)]
        /\ IF ReturnsOn429(e, method[c], attempt[c])
           THEN /\ Return(c, Fail(ErrOrStatus(data, 429), 0))
                /\ UNCHANGED wakeAt
           ELSE \* await new Promise((res) => setTimeout(res, waitMs))
                /\ pc' = [pc EXCEPT ![c] = "sleep"]
                /\ wakeAt' = [wakeAt EXCEPT ![c] = now + Max(waitMs, 0)]
                /\ UNCHANGED result
        /\ tokenSent' = [tokenSent EXCEPT ![c] = 0]
        /\ last' = Step("429", c, 429, h, Null)
        /\ UNCHANGED <<now, endpoint, method, attempt, backoff, awaiting, netCalls,
                       refreshRetries, n401, errMsg, authStatus, cache,
                       refreshPromise, refreshInFlight, refreshCount, storeVars,
                       socketVars, sessionVars>>

RateLimitedBy(calls, headers, bodies) ==
    \E c \in calls, h \in headers, body \in bodies : Handle429(c, h, body)

\* the timer of a wait fires: attempt += 1; backoff *= 2; continue
WakeUpBy(calls) ==
    \E c \in calls :
        /\ pc[c] = "sleep"
        /\ now >= wakeAt[c]
        /\ attempt' = [attempt EXCEPT ![c] = @ + 1]
        /\ backoff' = [backoff EXCEPT ![c] = @ * 2]
        /\ wakeAt' = [wakeAt EXCEPT ![c] = 0]
        /\ IssueFetch(c)
        /\ last' = Step("wake", c, 0, NoHeader, Null)
        /\ UNCHANGED <<now, endpoint, method, awaiting, refreshRetries, n429, n401,
                       errMsg, authStatus, result, clientVars, storeVars, rejected,
                       socketVars, sessionVars>>

----------------------------------------------------------------------------
(* request(): fetch throws (no response at all) *)

NetworkErrorMessage == "Failed to fetch"

NetworkErrorBy(calls) ==
    \E c \in calls :
        /\ pc[c] = "fetch"
        /\ IF attempt[c] < maxRetries
           THEN /\ pc' = [pc EXCEPT ![c] = "sleep"]
                /\ wakeAt' = [wakeAt EXCEPT ![c] = now + backoff[c]]
                /\ UNCHANGED result
           ELSE /\ Return(c, Fail(NetworkErrorMessage, 0))
                /\ UNCHANGED wakeAt
        /\ tokenSent' = [tokenSent EXCEPT ![c] = 0]
        /\ last' = Step("neterr", c, 0, NoHeader, Null)
        /\ UNCHANGED <<now, endpoint, method, attempt, backoff, awaiting, netCalls,
                       refreshRetries, n429, n401, errMsg, authStatus, clientVars,
                       storeVars, rejected,
                       socketVars, sessionVars>>

----------------------------------------------------------------------------
(* request(): a non-ok response other than 401, 403, 429 *)

HandleNotOk(c, status, body) ==
    LET data == ResponseJson(body)
        serverMsg == CloneText(body, BodyUsedAfterJson(body))
    IN  /\ pc[c] = "fetch"
        /\ Return(c, Fail(ErrMessage(data, serverMsg, status), status))
        /\ tokenSent' = [tokenSent EXCEPT ![c] = 0]
        /\ last' = Step("notok", c, status, NoHeader, body)
        /\ UNCHANGED <<now, endpoint, method, attempt, backoff, wakeAt, awaiting,
                       netCalls, refreshRetries, n429, n401, errMsg, authStatus,
                       clientVars, storeVars, rejected,
                       socketVars, sessionVars>>

NotOkBy(calls, statuses, bodies) ==
    \E c \in calls, status \in statuses, body \in bodies :
        HandleNotOk(c, status, body)

----------------------------------------------------------------------------
(* request(): a 2xx response *)

\* this._cache[endpoint] = { ts: Date.now(), data } when cacheable and data
CacheAfterOk(e, m, data, entry, t) ==
    IF IsCacheable(e, m) /\ data # Null THEN [ts |-> t, data |-> data] ELSE entry

HandleOk(c, body) ==
    LET data == ResponseJson(body)
        e == endpoint[c]
    IN  /\ pc[c] = "fetch"
        /\ cache' = [cache EXCEPT ![e] = CacheAfterOk(e, method[c], data, @, now)]
        /\ Return(c, Raw(data))
        /\ tokenSent' = [tokenSent EXCEPT ![c] = 0]
        /\ last' = Step("ok", c, 200, NoHeader, Null)
        /\ UNCHANGED <<now, endpoint, method, attempt, backoff, wakeAt, awaiting,
                       netCalls, refreshRetries, n429, n401, errMsg, authStatus,
                       cooldowns, refreshPromise, refreshInFlight, refreshCount,
                       storeVars, rejected,
                       socketVars, sessionVars>>

OkBy(calls, bodies) ==
    \E c \in calls, body \in bodies : HandleOk(c, body)

----------------------------------------------------------------------------
(* request(): a 401 or 403 response, and refreshAccessToken() *)

Handle401(c, status, body) ==
    LET data == ResponseJson(body)
        starts == StartsRefresh(refreshPromise)
        id == refreshCount + 1
    IN  /\ pc[c] = "fetch"
        /\ n401' = [n401 EXCEPT ![c] = @ + 1]
        /\ rejected' = rejected + 1
        /\ errMsg' = [errMsg EXCEPT ![c] = ErrOrStatus(data, status)]
        /\ authStatus' = [authStatus EXCEPT ![c] = status]
        /\ IF starts
           THEN \* this._refreshPromise = this.refreshAccessToken().finally(...)
                /\ refreshPromise' = id
                /\ refreshInFlight' = refreshInFlight \cup {id}
                /\ refreshCount' = refreshCount + 1
           ELSE UNCHANGED <<refreshPromise, refreshInFlight, refreshCount>>
        \* const refreshed = await this._refreshPromise
        /\ awaiting' = [awaiting EXCEPT ![c] = refreshPromise']
        /\ pc' = [pc EXCEPT ![c] = "refresh"]
        /\ tokenSent' = [tokenSent EXCEPT ![c] = 0]
        /\ last' = Step("401", c, status, NoHeader, Null)
        /\ UNCHANGED <<now, endpoint, method, attempt, backoff, wakeAt, netCalls,
                       refreshRetries, n429, result, cache, cooldowns, storeVars,
                       socketVars, sessionVars>>

UnauthorizedBy(calls, statuses, bodies) ==
    \E c \in calls, status \in statuses, body \in bodies :
        Handle401(c, status, body)

\* what the refresh endpoint answers: a non-ok status, a body with an access
\* token, with both tokens, a 2xx without a token, no response at all
RefreshOutcomes == {"notok", "token", "tokens", "notoken", "neterr"}

\* the value refreshAccessToken() resolves to
Refreshed(outcome) == outcome \in {"token", "tokens"}

\* localStorage after refreshAccessToken(); id + 1 is the token the server issued
AccessTokenAfter(outcome, id, tok) ==
    IF outcome = "notok" THEN 0
    ELSE IF Refreshed(outcome) THEN id + 1
    ELSE tok

RefreshTokenAfter(outcome, id, tok) ==
    IF outcome = "notok" THEN 0
    ELSE IF outcome = "tokens" THEN id + 1
    ELSE tok

\* The refresh with this id settles.  The continuation of refreshAccessToken,
\* the finally callback and the continuations of the calls that await the
\* promise run in one microtask checkpoint.
SettleRefresh(id, outcome) ==
    LET refreshed == Refreshed(outcome)
        waiters == {c \in AllCalls : pc[c] = "refresh" /\ awaiting[c] = id}
        retrying == {c \in waiters : RetriesAfterRefresh(refreshed, attempt[c])}
        failing == waiters \ retrying
    IN  /\ id \in refreshInFlight
        /\ accessToken' = AccessTokenAfter(outcome, id, accessToken)
        /\ refreshToken' = RefreshTokenAfter(outcome, id, refreshToken)
        /\ href' = IF outcome = "notok" THEN "/auth" ELSE href
        /\ refreshInFlight' = refreshInFlight \ {id}
        \* .finally(() => { this._refreshPromise = null; })
        /\ refreshPromise' = 0
        /\ attempt' = [c \in AllCalls |->
                          IF c \in retrying THEN attempt[c] + 1 ELSE attempt[c]]
        /\ refreshRetries' = [c \in AllCalls |->
                          IF c \in retrying THEN refreshRetries[c] + 1
                          ELSE refreshRetries[c]]
        /\ netCalls' = [c \in AllCalls |->
                          IF c \in retrying THEN netCalls[c] + 1 ELSE netCalls[c]]
        /\ tokenSent' = [c \in AllCalls |->
                          IF c \in retrying THEN accessToken' ELSE tokenSent[c]]
        /\ pc' = [c \in AllCalls |->
                          IF c \in retrying THEN "fetch"
                          ELSE IF c \in failing THEN "done" ELSE pc[c]]
        /\ result' = [c \in AllCalls |->
                          IF c \in failing THEN Fail(errMsg[c], authStatus[c])
                          ELSE result[c]]
        /\ awaiting' = [c \in AllCalls |-> IF c \in waiters THEN 0 ELSE awaiting[c]]
        /\ errMsg' = [c \in AllCalls |-> IF c \in waiters THEN "" ELSE errMsg[c]]
        /\ authStatus' = [c \in AllCalls |->
                          IF c \in waiters THEN 0 ELSE authStatus[c]]
        \* if (isAuthMe) this._cooldowns[endpoint] = Date.now() + 30_000
        /\ cooldowns' = [e \in Endpoints |->
                          IF \E c \in failing :
                                endpoint[c] = e /\ IsAuthMe(endpoint[c], method[c])
                          THEN now + AuthMeCooldown ELSE cooldowns[e]]
        /\ last' = Step("refreshed", id, 0, NoHeader, Null)
        /\ UNCHANGED <<now, endpoint, method, backoff, wakeAt, n429, n401, cache,
                       refreshCount, rejected,
                       socketVars, sessionVars>>

RefreshSettlesBy(outcomes) ==
    \E id \in refreshInFlight, outcome \in outcomes : SettleRefresh(id, outcome)

----------------------------------------------------------------------------
(* Spec: one request() at a time, every kind of response *)

SoloCalls == {1}

Request == RequestBy(SoloCalls, Requests)
Tick == Advance
RateLimited == RateLimitedBy(SoloCalls, RetryAfterHeaders, LimitBodies)
WakeUp == WakeUpBy(SoloCalls)
NetworkError == NetworkErrorBy(SoloCalls)
NotOk == NotOkBy(SoloCalls, ErrorStatuses, ErrBodies)
Ok == OkBy(SoloCalls, OkBodies)
Unauthorized == UnauthorizedBy(SoloCalls, AuthStatuses, LimitBodies)
RefreshSettles == RefreshSettlesBy(RefreshOutcomes)

Next ==
    \/ Request
    \/ Tick
    \/ RateLimited
    \/ WakeUp
    \/ NetworkError
    \/ NotOk
    \/ Ok
    \/ Unauthorized
    \/ RefreshSettles

Spec == Init /\ [][Next]_vars

----------------------------------------------------------------------------
(* SpecLive: one request() call whose fetches, timers and token refreshes   *)
(* all settle.  The browser settles every fetch (a response or a network   *)
(* error), fires every timer once its delay has passed, and the clock      *)
(* keeps running; nothing obliges the application to call request().       *)

\* Retry-After headers whose wait ends before the clock of the model stops
LiveHeaders == { NoHeader, Header("secs", 0), Header("secs", 2), Header("junk", 0) }

LiveRequest == RequestBy(SoloCalls, Requests)
LiveTick == Advance
LiveRateLimited == RateLimitedBy(SoloCalls, LiveHeaders, {EmptyBody})
LiveWakeUp == WakeUpBy(SoloCalls)
LiveNetworkError == NetworkErrorBy(SoloCalls)
LiveNotOk == NotOkBy(SoloCalls, {500}, {EmptyBody})
LiveOk == OkBy(SoloCalls, {JsonA})
LiveUnauthorized == UnauthorizedBy(SoloCalls, AuthStatuses, {EmptyBody})
LiveRefreshSettles == RefreshSettlesBy(RefreshOutcomes)

\* the fetch in flight settles
LiveSettles ==
    LiveRateLimited \/ LiveNetworkError \/ LiveNotOk \/ LiveOk \/ LiveUnauthorized

NextLive ==
    \/ LiveRequest
    \/ LiveTick
    \/ LiveRateLimited
    \/ LiveWakeUp
    \/ LiveNetworkError
    \/ LiveNotOk
    \/ LiveOk
    \/ LiveUnauthorized
    \/ LiveRefreshSettles

SpecLive ==
    /\ Init
    /\ [][NextLive]_vars
    /\ WF_vars(LiveSettles)
    /\ WF_vars(LiveTick)
    /\ WF_vars(LiveWakeUp)
    /\ WF_vars(LiveRefreshSettles)

----------------------------------------------------------------------------
(* SpecFive: five request() calls to a protected endpoint, issued together; *)
(* every first attempt is answered 401                                     *)

FiveSet == 1 .. FiveCalls

FiveIssued == \A c \in FiveSet : pc[c] # "idle"

FiveRequest == RequestBy(FiveSet, {<<HelpersMe, "GET">>})
FiveUnauthorized ==
    /\ FiveIssued
    /\ \E c \in FiveSet : n401[c] < Max401 /\ Handle401(c, 401, EmptyBody)
FiveOk ==
    /\ FiveIssued
    /\ \E c \in FiveSet : attempt[c] > 0 /\ HandleOk(c, JsonA)
FiveRefreshSettles == RefreshSettlesBy({"tokens", "notoken"})

NextFive ==
    \/ FiveRequest
    \/ FiveUnauthorized
    \/ FiveOk
    \/ FiveRefreshSettles

SpecFive == Init /\ [][NextFive]_vars

----------------------------------------------------------------------------
(* SpecRace: request() calls that overlap in time and are rejected *)

RaceCalls == 1 .. NumCalls
RaceRequests == { <<AuthMe, "GET">>, <<HelpersMe, "GET">> }
RaceHeaders == { NoHeader, Header("secs", 60) }

RaceRequest == RequestBy(RaceCalls, RaceRequests)
RaceTick == Advance
RaceRateLimited ==
    rejected < MaxRejected /\ RateLimitedBy(RaceCalls, RaceHeaders, {EmptyBody})
RaceWakeUp == WakeUpBy(RaceCalls)
RaceOk == OkBy(RaceCalls, {JsonA})
RaceUnauthorized ==
    rejected < MaxRejected /\ UnauthorizedBy(RaceCalls, AuthStatuses, {EmptyBody})
RaceRefreshSettles == RefreshSettlesBy({"tokens", "notok", "neterr"})

NextRace ==
    \/ RaceRequest
    \/ RaceTick
    \/ RaceRateLimited
    \/ RaceWakeUp
    \/ RaceOk
    \/ RaceUnauthorized
    \/ RaceRefreshSettles

SpecRace == Init /\ [][NextRace]_vars

----------------------------------------------------------------------------
(* SpecCache: calls to the cached and the polled endpoints, one after the  *)
(* other or overlapping                                                    *)

CacheCalls == 1 .. CacheSize
CacheRequests ==
    { <<AuthMe, "GET">>, <<ServicesActive, "GET">>, <<ServicesActive, "POST">> }

CacheRequest == RequestBy(CacheCalls, CacheRequests)
CacheTick == Advance
CacheRateLimited ==
    rejected < MaxLimited /\ RateLimitedBy(CacheCalls, {NoHeader}, {EmptyBody})
CacheWakeUp == WakeUpBy(CacheCalls)
CacheOk == OkBy(CacheCalls, {JsonA})

NextCache ==
    \/ CacheRequest
    \/ CacheTick
    \/ CacheRateLimited
    \/ CacheWakeUp
    \/ CacheOk

SpecCache == Init /\ [][NextCache]_vars

----------------------------------------------------------------------------
(* SocketClient: connect(), disconnect(), on(), off() *)

\* connect() reaches io(): a token is at hand, it has not expired and the
\* current Socket is not connected
ConnectCreates(tok, s, tr, t) ==
    tok # 0 /\ ~Expired(tok, t) /\ ~IsConnected(s, tr)

\* this.socket after connect()
SocketAfterConnect(tok, s, tr, t) ==
    IF ConnectCreates(tok, s, tr, t) THEN FreshTransport(tr) ELSE s

\* the Socket objects after connect(): a new one carries the token and the
\* handlers of the registry and of the client
TransportAfterConnect(tok, s, tr, ls, t) ==
    IF ConnectCreates(tok, s, tr, t)
    THEN [tr EXCEPT ![FreshTransport(tr)] = Transport("connecting", tok, AttachAll(ls))]
    ELSE tr

\* the value connect() returns (0: null)
ConnectReturns(tok, s, tr, t) ==
    IF tok = 0 \/ Expired(tok, t) THEN 0
    ELSE IF IsConnected(s, tr) THEN s
    ELSE FreshTransport(tr)

Connect(arg) ==
    LET tok == TokenToUse(arg, accessToken, refreshToken)
    IN  /\ ConnectCreates(tok, socket, transport, now) => FreshTransport(transport) # 0
        /\ socket' = SocketAfterConnect(tok, socket, transport, now)
        /\ transport' = TransportAfterConnect(tok, socket, transport, listeners, now)
        /\ lastSock' = SockStep("", "", tok, ConnectReturns(tok, socket, transport, now),
                                NoCalls)
        /\ last' = Step("connect", 0, 0, NoHeader, Null)
        /\ UNCHANGED <<sessionVars, now, callVars, clientVars, storeVars, rejected, listeners,
                       reconnectAttempts, life>>

\* the application calls disconnect()
Disconnect ==
    /\ transport' = TransportAfterDisconnect(transport, socket)
    /\ listeners' = ListenersAfterDisconnect(listeners, socket)
    /\ socket' = 0
    /\ life' = LifeTorn(life)
    /\ lastSock' = NoSockStep
    /\ last' = Step("disconnect", 0, 0, NoHeader, Null)
    /\ UNCHANGED <<sessionVars, now, callVars, clientVars, storeVars, rejected, reconnectAttempts>>

On(ev, cb) ==
    LET has == cb \in listeners[ev]
    IN  /\ listeners' = [listeners EXCEPT ![ev] = @ \cup {cb}]
        /\ transport' =
              IF ~has /\ socket # 0
              THEN [transport EXCEPT ![socket].handlers[<<ev, cb>>] = @ + 1]
              ELSE transport
        /\ life' = IF has /\ Registered(life, <<ev, cb>>) THEN life
                   ELSE [life EXCEPT ![<<ev, cb>>] = "on"]
        /\ lastSock' = SockStep(ev, cb, 0, 0, NoCalls)
        /\ last' = Step("on", 0, 0, NoHeader, Null)
        /\ UNCHANGED <<sessionVars, now, callVars, clientVars, storeVars, rejected, socket,
                       reconnectAttempts>>

\* off(event, callback)
Off(ev, cb) ==
    /\ listeners' = [listeners EXCEPT ![ev] = @ \ {cb}]
    /\ transport' =
          IF socket # 0
          THEN [transport EXCEPT ![socket].handlers = DetachOne(@, ev, cb)]
          ELSE transport
    /\ life' = [life EXCEPT ![<<ev, cb>>] = "off"]
    /\ lastSock' = SockStep(ev, cb, 0, 0, NoCalls)
    /\ last' = Step("off", 0, 0, NoHeader, Null)
    /\ UNCHANGED <<sessionVars, now, callVars, clientVars, storeVars, rejected, socket,
                   reconnectAttempts>>

\* off(event)
OffEvent(ev) ==
    /\ listeners' = [listeners EXCEPT ![ev] = {}]
    /\ transport' =
          IF socket # 0
          THEN [transport EXCEPT ![socket].handlers = DetachEvent(@, ev)]
          ELSE transport
    /\ life' = [k \in AppKeys |->
                  IF k[1] = ev /\ life[k] # "never" THEN "off" ELSE life[k]]
    /\ lastSock' = SockStep(ev, "", 0, 0, NoCalls)
    /\ last' = Step("off", 0, 0, NoHeader, Null)
    /\ UNCHANGED <<sessionVars, now, callVars, clientVars, storeVars, rejected, socket,
                   reconnectAttempts>>

----------------------------------------------------------------------------
(* SocketClient: events of a Socket object *)

\* the service the 'connect' handler joins: localStorage activeServiceId,
\* sent with this.socket.emit('join:service') (0: nothing is sent)
JoinedService(runs, sid, s) == IF runs /\ sid # 0 /\ s # 0 THEN sid ELSE 0

\* the handshake of a Socket completes: 'connect' fires on it; sid is the
\* activeServiceId in localStorage (0: none).  The step records sid as token
\* and the service joined as ret.
Handshake(t, sid) ==
    /\ transport[t].state = "connecting"
    /\ transport' = [transport EXCEPT ![t].state = "connected", ![t].errors = 0]
    \* this.reconnectAttempts = 0
    /\ reconnectAttempts' =
          IF OwnRuns(transport, t, "connect") THEN 0 ELSE reconnectAttempts
    /\ life' = IF t = socket THEN LifeBack(life) ELSE life
    /\ lastSock' = SockStep("connect", "", sid,
                            JoinedService(OwnRuns(transport, t, "connect"), sid, socket),
                            Calls(transport, t, "connect"))
    /\ last' = Step("handshake", t, 0, NoHeader, Null)
    /\ UNCHANGED <<sessionVars, now, callVars, clientVars, storeVars, rejected, socket, listeners>>

\* a connection attempt of a Socket fails: 'connect_error' fires on it and
\* the Socket keeps trying (reconnection: true).  The step records the
\* handle this.socket had when the event fired as ret.
ConnectError(t) ==
    LET runs == OwnRuns(transport, t, "connect_error")
        attempts == IF runs THEN reconnectAttempts + 1 ELSE reconnectAttempts
        gives_up == runs /\ attempts >= maxReconnectAttempts
        failed == [transport EXCEPT ![t].errors = @ + 1]
    IN  /\ transport[t].state = "connecting"
        /\ reconnectAttempts < MaxErrors
        /\ transport[t].errors < MaxErrors
        /\ reconnectAttempts' = attempts
        /\ IF gives_up
           THEN \* this.disconnect()
                /\ transport' = TransportAfterDisconnect(failed, socket)
                /\ listeners' = ListenersAfterDisconnect(listeners, socket)
                /\ socket' = 0
                /\ life' = IF socket # 0 THEN LifeDown(life) ELSE life
           ELSE /\ transport' = failed
                /\ UNCHANGED <<listeners, socket, life>>
        /\ lastSock' = SockStep("connect_error", "", 0, socket,
                                Calls(transport, t, "connect_error"))
        /\ last' = Step("connect_error", t, 0, NoHeader, Null)
        /\ UNCHANGED <<sessionVars, now, callVars, clientVars, storeVars, rejected>>

\* the connection of a Socket drops; the Socket starts to reconnect
Drop(t) ==
    /\ transport[t].state = "connected"
    /\ transport' = [transport EXCEPT ![t].state = "connecting"]
    /\ life' = IF t = socket THEN LifeDown(life) ELSE life
    /\ lastSock' = NoSockStep
    /\ last' = Step("drop", t, 0, NoHeader, Null)
    /\ UNCHANGED <<sessionVars, now, callVars, clientVars, storeVars, rejected, socket, listeners,
                   reconnectAttempts>>

\* data.accessToken of an auth:rotated push
RotatedToken == 3

\* the server emits an event to a connected Socket.  For auth:rotated the
\* step records the pushed token as token and the Socket that was sent
\* auth:update as ret.
Recv(t, ev) ==
    LET invalid == ev = "auth:invalid" /\ OwnRuns(transport, t, ev)
        rotated == ev = "auth:rotated" /\ OwnRuns(transport, t, ev)
    IN  /\ transport[t].state = "connected"
        /\ IF invalid
           THEN /\ accessToken' = 0
                /\ refreshToken' = 0
                \* this.disconnect()
                /\ transport' = TransportAfterDisconnect(transport, socket)
                /\ listeners' = ListenersAfterDisconnect(listeners, socket)
                /\ socket' = 0
                /\ life' = LifeTorn(life)
                /\ href' = IF href \notin {"/auth", "/login"} THEN "/auth" ELSE href
           ELSE IF rotated
           THEN \* localStorage.setItem('accessToken', data.accessToken)
                /\ accessToken' = RotatedToken
                /\ UNCHANGED <<refreshToken, href, transport, listeners, socket, life>>
           ELSE UNCHANGED <<storeVars, transport, listeners, socket, life>>
        /\ lastSock' = SockStep(ev, "", IF rotated THEN RotatedToken ELSE 0,
                                IF rotated THEN socket ELSE 0,
                                Calls(transport, t, ev))
        /\ last' = Step("recv", t, 0, NoHeader, Null)
        /\ UNCHANGED <<sessionVars, now, callVars, clientVars, rejected, reconnectAttempts>>

\* Date.now() passes the expiry of a token
TokenExpiries(t) ==
    { d \in UNION { {JwtExp(tok) * 1000, JwtExp(tok) * 1000 + 1} :
                      tok \in {accessToken, refreshToken} \ {0} } :
        d > t /\ d <= MaxNow }

TimePasses ==
    \E t \in TokenExpiries(now) :
        /\ now' = t
        /\ lastSock' = NoSockStep
        /\ last' = Step("tick", 0, 0, NoHeader, Null)
        /\ UNCHANGED <<sessionVars, callVars, clientVars, storeVars, rejected, socket, listeners,
                       reconnectAttempts, transport, life>>

----------------------------------------------------------------------------
(* axiosClient: the response interceptor after its refresh call *)

\* data.accessToken of the refresh response
AxiosToken == 2

\* axios.post('/auth/refresh') resolves
AxiosRefreshed ==
    LET tok == AxiosToken
        was == IsConnected(socket, transport)
        \* socketClient.disconnect()
        s1 == IF was THEN 0 ELSE socket
        tr1 == IF was THEN TransportAfterDisconnect(transport, socket) ELSE transport
        ls1 == IF was THEN ListenersAfterDisconnect(listeners, socket) ELSE listeners
        creates == was /\ ConnectCreates(tok, s1, tr1, now)
    IN  /\ creates => FreshTransport(tr1) # 0
        /\ accessToken' = tok
        \* socketClient.connect(data.accessToken)
        /\ socket' = IF was THEN SocketAfterConnect(tok, s1, tr1, now) ELSE socket
        /\ transport' = IF was THEN TransportAfterConnect(tok, s1, tr1, ls1, now)
                        ELSE transport
        /\ listeners' = ls1
        /\ life' = IF was THEN LifeDown(life) ELSE life
        /\ lastSock' = SockStep("", "", tok, 0, NoCalls)
        /\ last' = Step("axiosRefreshed", 0, 0, NoHeader, Null)
        /\ UNCHANGED <<sessionVars, now, callVars, clientVars, refreshToken, href, rejected,
                       reconnectAttempts>>

\* axios.post('/auth/refresh') rejects
AxiosRefreshFailed ==
    /\ accessToken' = 0
    /\ refreshToken' = 0
    /\ href' = "/auth"
    /\ lastSock' = NoSockStep
    /\ last' = Step("axiosFailed", 0, 0, NoHeader, Null)
    /\ UNCHANGED <<sessionVars, now, callVars, clientVars, rejected, socket, listeners,
                   reconnectAttempts, transport, life>>

----------------------------------------------------------------------------
(* AuthProvider: checkAuth(), login(), logout() *)

\* the request() invocations of a session
SessionCalls == 1 .. MaxSessionCalls

\* the request() invocation that starts next (0: none left in the model)
FreeCall ==
    IF \E c \in SessionCalls : pc[c] = "idle"
    THEN CHOOSE c \in SessionCalls :
            pc[c] = "idle" /\ \A b \in SessionCalls : b < c => pc[b] # "idle"
    ELSE 0

\* the request a checkAuth run awaits has returned and its continuation has
\* not run yet: it runs before any other task
Pending == check.pc # "idle" /\ pc[check.call] = "done"

\* response.success && response.data
HasData(r) == r.success /\ r.body.payload # 0

\* the run stores acc / ref and awaits request(e, m)
Awaits(p, from, blocked, e, m, acc, ref) ==
    /\ FreeCall # 0
    /\ BeginRequestWith(FreeCall, e, m, acc)
    /\ check' = CheckAuth(p, FreeCall, from, blocked)
    /\ accessToken' = acc
    /\ refreshToken' = ref

\* the run stores acc / ref and ends: isCheckingRef.current = false
Ends(acc, ref) ==
    /\ check' = NoCheck
    /\ accessToken' = acc
    /\ refreshToken' = ref
    /\ UNCHANGED <<callVars, clientVars>>

\* attemptRefresh() has returned ok, the store holding acc / ref
AfterAttempt(from, blocked, ok, acc, ref) ==
    IF from = "start"
    THEN IF ok
         THEN Awaits("getMe", "getMe", blocked, AuthMe, "GET", acc, ref)
         ELSE Ends(acc, ref)
    ELSE IF ok THEN Ends(acc, ref) ELSE Ends(0, 0)

\* attemptRefresh() is called
AttemptRefresh(from, blocked) ==
    IF blocked \/ Throttled(lastRefresh, now)
    THEN /\ AfterAttempt(from, blocked, FALSE, accessToken, refreshToken)
         /\ UNCHANGED lastRefresh
    ELSE /\ lastRefresh' = now
         /\ Awaits(IF refreshToken # 0 THEN "refreshBody" ELSE "refreshCookie",
                   from, blocked, AuthRefresh, "POST", accessToken, refreshToken)

\* the step's name: checkRefresh when it called apiClient.refreshTokens()
CheckOp == IF check'.pc \in {"refreshBody", "refreshCookie"} THEN "checkRefresh"
           ELSE "checkAuth"

\* checkAuth() is called while no run is in progress
CheckAuthStart ==
    /\ check.pc = "idle"
    /\ IF accessToken = 0
       THEN IF logoutBlock = 1
            THEN Ends(accessToken, refreshToken) /\ UNCHANGED lastRefresh
            ELSE AttemptRefresh("start", FALSE)
       ELSE /\ Awaits("getMe", "getMe", logoutBlock = 1, AuthMe, "GET",
                      accessToken, refreshToken)
            /\ UNCHANGED lastRefresh
    /\ lastSock' = NoSockStep
    /\ last' = Step(CheckOp, check'.call, 0, NoHeader, Null)
    /\ UNCHANGED <<now, href, rejected, socket, listeners, reconnectAttempts,
                   transport, life, logoutBlock>>

\* the request a checkAuth run awaits has returned
CheckAuthResumes ==
    LET r == result[check.call]
        from == check.from
        blocked == check.blocked
        connects == check.pc = "helper" /\ accessToken # 0
    IN  /\ Pending
        /\ connects /\ ConnectCreates(accessToken, socket, transport, now)
              => FreshTransport(transport) # 0
        /\ IF check.pc = "getMe"
           THEN IF HasData(r)
                THEN /\ Awaits("helper", from, blocked, HelpersMe, "GET",
                               accessToken, refreshToken)
                     /\ UNCHANGED lastRefresh
                ELSE AttemptRefresh("getMe", blocked)
           ELSE IF check.pc = "helper"
           THEN Ends(accessToken, refreshToken) /\ UNCHANGED lastRefresh
           ELSE IF HasData(r)
           THEN /\ AfterAttempt(from, blocked, TRUE, r.body.payload, refreshToken)
                /\ UNCHANGED lastRefresh
           ELSE IF r.status = 401
           THEN /\ AfterAttempt(from, blocked, FALSE, 0, 0)
                /\ UNCHANGED lastRefresh
           ELSE IF check.pc = "refreshBody"
           THEN /\ Awaits("refreshCookie", from, blocked, AuthRefresh, "POST",
                          accessToken, refreshToken)
                /\ UNCHANGED lastRefresh
           ELSE /\ AfterAttempt(from, blocked, FALSE, accessToken, refreshToken)
                /\ UNCHANGED lastRefresh
        \* socketClient.connect(tk)
        /\ socket' = IF connects
                     THEN SocketAfterConnect(accessToken, socket, transport, now)
                     ELSE socket
        /\ transport' =
              IF connects
              THEN TransportAfterConnect(accessToken, socket, transport, listeners, now)
              ELSE transport
        /\ lastSock' = NoSockStep
        /\ last' = Step(CheckOp, check'.call, 0, NoHeader, Null)
        /\ UNCHANGED <<now, href, rejected, listeners, reconnectAttempts, life,
                       logoutBlock>>

\* login(accessToken, refreshToken) with tokens of a helper
Login(acc, ref) ==
    LET creates == ConnectCreates(acc, socket, transport, now)
    IN  /\ creates => FreshTransport(transport) # 0
        /\ logoutBlock' = 0
        \* socketClient.connect(accessToken)
        /\ socket' = SocketAfterConnect(acc, socket, transport, now)
        /\ transport' = TransportAfterConnect(acc, socket, transport, listeners, now)
        \* await checkAuth()
        /\ IF check.pc = "idle"
           THEN Awaits("getMe", "getMe", FALSE, AuthMe, "GET", acc, ref)
           ELSE /\ accessToken' = acc
                /\ refreshToken' = ref
                /\ UNCHANGED <<check, callVars, clientVars>>
        /\ lastSock' = NoSockStep
        /\ last' = Step("login", 0, 0, NoHeader, Null)
        /\ UNCHANGED <<now, href, rejected, listeners, reconnectAttempts, life,
                       lastRefresh>>

\* logout()
Logout ==
    /\ FreeCall # 0
    \* void apiClient.logout()
    /\ BeginRequestWith(FreeCall, AuthLogoutUrl, "POST", accessToken)
    /\ accessToken' = 0
    /\ refreshToken' = 0
    /\ logoutBlock' = 1
    \* socketClient.disconnect()
    /\ transport' = TransportAfterDisconnect(transport, socket)
    /\ listeners' = ListenersAfterDisconnect(listeners, socket)
    /\ socket' = 0
    /\ life' = LifeTorn(life)
    /\ lastSock' = NoSockStep
    /\ last' = Step("logout", FreeCall, 0, NoHeader, Null)
    /\ UNCHANGED <<now, href, rejected, reconnectAttempts, check, lastRefresh>>

----------------------------------------------------------------------------
(* SpecSocket: the realtime channel, its transports and the application    *)

\* the callbacks the pages register and remove
PageKeys == {<<ServiceUpdated, "f">>}

\* connect() by the pages, without a token argument
SockConnect == Connect(0)
SockDisconnect == Disconnect
SockOn == \E k \in PageKeys : On(k[1], k[2])
SockOff == \E k \in PageKeys : Off(k[1], k[2])
SockOffEvent == \E k \in PageKeys : OffEvent(k[1])
SockHandshake == \E t \in Transports : Handshake(t, 0)
SockConnectError == \E t \in Transports : ConnectError(t)
SockDrop == \E t \in Transports : Drop(t)
SockRecv == \E t \in Transports, ev \in ServerEvents : Recv(t, ev)

NextSocket ==
    \/ SockConnect
    \/ SockDisconnect
    \/ SockOn
    \/ SockOff
    \/ SockOffEvent
    \/ SockHandshake
    \/ SockConnectError
    \/ SockDrop
    \/ SockRecv

SpecSocket == Init /\ [][NextSocket]_vars

----------------------------------------------------------------------------
(* SpecConnect: connect() with and without a token argument, while the      *)
(* wall clock passes the expiry of the stored token                        *)

\* the token argument of connect(): none, the first access token, a string
\* that is not a JWT
ConnectArgs == {0, 1, OpaqueToken}

ConnConnect == \E arg \in ConnectArgs : Connect(arg)
ConnDisconnect == Disconnect
ConnOn == \E k \in PageKeys : On(k[1], k[2])
ConnHandshake == \E t \in Transports : Handshake(t, 0)
ConnDrop == \E t \in Transports : Drop(t)
ConnTimePasses == TimePasses

NextConnect ==
    \/ ConnConnect
    \/ ConnDisconnect
    \/ ConnOn
    \/ ConnHandshake
    \/ ConnDrop
    \/ ConnTimePasses

SpecConnect == Init /\ [][NextConnect]_vars

----------------------------------------------------------------------------
(* SpecSession: a token refresh of ApiClient or of axiosClient while the    *)
(* realtime channel is in use                                              *)

SessionRequest == RequestBy(SoloCalls, {<<HelpersMe, "GET">>})
SessionUnauthorized ==
    rejected < MaxRejected /\ UnauthorizedBy(SoloCalls, {401}, {EmptyBody})
SessionOk == OkBy(SoloCalls, {JsonA})
SessionRefreshSettles == RefreshSettlesBy({"tokens", "notok", "neterr"})
SessionAxiosRefreshed == AxiosRefreshed
SessionAxiosRefreshFailed == AxiosRefreshFailed
SessionConnect == Connect(0)
SessionOn == \E k \in PageKeys : On(k[1], k[2])
SessionHandshake == \E t \in Transports : Handshake(t, 0)

NextSession ==
    \/ SessionRequest
    \/ SessionUnauthorized
    \/ SessionOk
    \/ SessionRefreshSettles
    \/ SessionAxiosRefreshed
    \/ SessionAxiosRefreshFailed
    \/ SessionConnect
    \/ SessionOn
    \/ SessionHandshake

SpecSession == Init /\ [][NextSession]_vars

----------------------------------------------------------------------------
(* SpecHandlers: the pages add and remove handlers of the channel's own     *)
(* events while Sockets connect, fail and reconnect                        *)

\* localStorage activeServiceId when 'connect' fires (0: absent)
ServiceIds == {0, 1}
\* the events the pages call off(event) for, and one the client handles itself
OffEvents == {"connect", "connect_error"}

HandConnect == Connect(0)
HandOn == On("connect", "f")
HandOff == Off("connect", "f")
HandOffEvent == \E ev \in OffEvents : OffEvent(ev)
HandHandshake == \E t \in Transports, sid \in ServiceIds : Handshake(t, sid)
HandConnectError ==
    \E t \in Transports : transport[t].errors < MaxFailures /\ ConnectError(t)
HandDrop == \E t \in Transports : Drop(t)

NextHandlers ==
    \/ HandConnect
    \/ HandOn
    \/ HandOff
    \/ HandOffEvent
    \/ HandHandshake
    \/ HandConnectError
    \/ HandDrop

SpecHandlers == Init /\ [][NextHandlers]_vars

----------------------------------------------------------------------------
(* SpecAuth: the session layer logs out and in while checkAuth runs and     *)
(* requests are in flight                                                  *)

\* the tokens login() is given after a logout
LoginToken == 5
\* data.accessToken of a response of /auth/refresh
NewToken == 4

\* the body of a 2xx response: the server answers /auth/refresh with a new
\* access token, every other endpoint with the data of the bearer of the token
UserBody(tok) == Body("json", "", TRUE, tok, "")
OkBody(e, tok) == IF e = AuthRefresh THEN UserBody(NewToken) ELSE UserBody(tok)

AuthCheck == CheckAuthStart
AuthResumes == CheckAuthResumes
AuthLogin == ~Pending /\ logoutBlock = 1 /\ Login(LoginToken, LoginToken)
AuthLogout == ~Pending /\ logoutBlock = 0 /\ Logout
AuthRequest == ~Pending /\ RequestBy(SessionCalls, {<<AuthMe, "GET">>})
AuthOk ==
    /\ ~Pending
    /\ \E c \in AllCalls :
          /\ endpoint[c] = AuthRefresh \/ tokenSent[c] # 0
          /\ HandleOk(c, OkBody(endpoint[c], tokenSent[c]))
AuthUnauthorized ==
    ~Pending /\ rejected < MaxRejected /\ UnauthorizedBy(AllCalls, {401}, {EmptyBody})
AuthNotOk == ~Pending /\ NotOkBy(AllCalls, {500}, {EmptyBody})
AuthRefreshSettles == ~Pending /\ RefreshSettlesBy({"tokens", "notok"})

NextAuth ==
    \/ AuthCheck
    \/ AuthResumes
    \/ AuthLogin
    \/ AuthLogout
    \/ AuthRequest
    \/ AuthOk
    \/ AuthUnauthorized
    \/ AuthNotOk
    \/ AuthRefreshSettles

SpecAuth == Init /\ [][NextAuth]_vars

----------------------------------------------------------------------------
(* Properties *)

\* C1: at most one token refresh is in flight at any time, and every call
\* that waits after a 401/403 waits for the refresh that is pending.
C1_SingleFlightRefresh ==
    /\ Cardinality(refreshInFlight) <= 1
    /\ \A c \in AllCalls :
          pc[c] = "refresh" =>
              /\ awaiting[c] \in refreshInFlight
              /\ awaiting[c] = refreshPromise

\* two calls wait for one and the same refresh
C1_Witness ==
    \E c1, c2 \in AllCalls :
        /\ c1 # c2
        /\ pc[c1] = "refresh" /\ pc[c2] = "refresh"
        /\ awaiting[c1] = awaiting[c2]
        /\ refreshCount = 1

\* C2: once the five calls that were issued together and answered 401 have
\* all returned, exactly one fetch has gone to the refresh endpoint.
C2_ExactlyOneRefreshCall ==
    (\A c \in FiveSet : pc[c] = "done" /\ n401[c] = 1) => refreshCount = 1

\* C3 as stated: a request() made while the endpoint's cooldown lies in the
\* future returns success=false and issues no network call.
C3_CooldownAlwaysFails ==
    \A c \in AllCalls :
        (last.op = "request" /\ last.call = c /\ cooldowns[endpoint[c]] > now) =>
            /\ pc[c] = "done"
            /\ netCalls[c] = 0
            /\ result[c].success = FALSE

\* C3 amended: a request() made while the endpoint's cooldown lies in the
\* future issues no network call; it returns success=false unless it is a
\* GET of /auth/me or /services/active whose cache entry is younger than
\* 10 s, which returns the cached body.
C3_CooldownNoNetworkCall ==
    \A c \in AllCalls :
        (last.op = "request" /\ last.call = c /\ cooldowns[endpoint[c]] > now) =>
            /\ pc[c] = "done"
            /\ netCalls[c] = 0
            /\ \/ result[c].success = FALSE
               \/ /\ endpoint[c] \in {AuthMe, ServicesActive}
                  /\ method[c] = "GET"
                  /\ cache[endpoint[c]].ts >= 0
                  /\ now - cache[endpoint[c]].ts < 10000
                  /\ result[c].body = cache[endpoint[c]].data

\* a call has just been turned away by an active cooldown
C3_Witness ==
    \E c \in AllCalls :
        /\ last.op = "request" /\ last.call = c
        /\ cooldowns[endpoint[c]] > now
        /\ pc[c] = "done"
        /\ result[c].error = "Client-side cooldown after rate limit"

\* C4: a write to a cooldown that is still active never lowers it.
C4_CooldownMonotone ==
    [][\A e \in Endpoints : cooldowns[e] > now => cooldowns'[e] >= cooldowns[e]]_vars

\* C5: after a 429 with Retry-After: n seconds has been handled, the
\* endpoint's cooldown ends at least n seconds after the response.
C5_RetryAfterHonoured ==
    \A c \in AllCalls :
        (last.op = "429" /\ last.call = c /\ last.retryAfter.kind = "secs") =>
            cooldowns[endpoint[c]] >= now + last.retryAfter.n * 1000

\* C6: one request() call retries at most once after a successful refresh.
C6_AtMostOneRefreshRetry ==
    \A c \in AllCalls : refreshRetries[c] <= 1

\* C7: a call outside /services/ that has received 429 five times has
\* returned success=false after five fetches, and when the fifth response has
\* just been handled the endpoint's cooldown ends 30 s from now.
C7_ExhaustedRetries ==
    \A c \in AllCalls :
        (n429[c] = 5 /\ endpoint[c] \notin {ServicesActive, ServiceById}) =>
            /\ pc[c] = "done"
            /\ result[c].success = FALSE
            /\ netCalls[c] = 5
            /\ (last.op = "429" /\ last.call = c) =>
                    cooldowns[endpoint[c]] = now + 30000

\* the fifth 429 of a call has just been handled
C7_Witness ==
    \E c \in AllCalls :
        /\ n429[c] = 5
        /\ endpoint[c] = HelpersMe
        /\ last.op = "429" /\ last.call = c

\* C8: a 429 without Retry-After on the first attempt of GET /services/active
\* sets a 5-minute cooldown and returns success=false with an error message:
\* one fetch, no wait, no retry.
C8_ActiveServiceHardStop ==
    \A c \in AllCalls :
        ( /\ last.op = "429" /\ last.call = c /\ last.retryAfter.kind = "none"
          /\ endpoint[c] = ServicesActive /\ method[c] = "GET"
          /\ n429[c] + n401[c] = 1 /\ netCalls[c] = 1 ) =>
            /\ pc[c] = "done"
            /\ cooldowns[ServicesActive] = now + 5 * 60 * 1000
            /\ result[c].success = FALSE
            /\ result[c].error # ""
            /\ attempt[c] = 0
            /\ wakeAt[c] = 0

\* GET /services/active has just been answered 429 on its first attempt
C8_Witness ==
    \E c \in AllCalls :
        /\ last.op = "429" /\ last.call = c /\ last.retryAfter.kind = "none"
        /\ endpoint[c] = ServicesActive /\ method[c] = "GET"
        /\ netCalls[c] = 1
        /\ pc[c] = "done"

\* C9: a GET of /auth/me or /services/active made while a cache entry is
\* younger than 10 s returns the cached body without a fetch; made 10 s or
\* more after the entry was written it is not served from the cache.
C9_CacheTtl ==
    \A c \in AllCalls :
        ( /\ last.op = "request" /\ last.call = c
          /\ endpoint[c] \in {AuthMe, ServicesActive} /\ method[c] = "GET"
          /\ cache[endpoint[c]].ts >= 0 ) =>
            IF now - cache[endpoint[c]].ts < 10000
            THEN /\ pc[c] = "done"
                 /\ netCalls[c] = 0
                 /\ result[c].shape = "raw"
                 /\ result[c].body = cache[endpoint[c]].data
            ELSE result[c].shape # "raw"

\* a call made some time after the entry was written is served from the cache
C9_Witness ==
    \E c \in AllCalls :
        /\ last.op = "request" /\ last.call = c
        /\ cache[endpoint[c]].ts >= 0
        /\ now > cache[endpoint[c]].ts
        /\ now - cache[endpoint[c]].ts < 10000
        /\ result[c].body = JsonA

\* the message C10 expects for a body
C10_Expected(body, status) ==
    IF body.kind = "json" /\ body.error # "" THEN body.error
    ELSE IF body.text # "" THEN body.text
    ELSE "Request failed with status " \o ToString(status)

\* C10: a non-ok response other than 401, 403, 429 ends the call with
\* success=false, the HTTP status, and the error taken from the JSON error
\* field, else the raw text body, else the generic message.
C10_ErrorSurfaced ==
    \A c \in AllCalls :
        (last.op = "notok" /\ last.call = c) =>
            /\ pc[c] = "done"
            /\ result[c].success = FALSE
            /\ result[c].status = last.status
            /\ result[c].error = C10_Expected(last.body, last.status)

\* C11: whatever the server answered, a call that has returned has resolved
\* to a value with a boolean success field: the envelope request() builds
\* itself or the JSON envelope the server sent.
C11_NormalizedShape ==
    \A c \in AllCalls :
        pc[c] = "done" =>
            \/ result[c].shape = "envelope"
            \/ result[c].shape = "raw" /\ result[c].body.kind = "json"

\* C12: when the refresh a call waited for after its 401/403 has settled and
\* the call has returned instead of retrying, both tokens are gone from the
\* store and the call's result is success=false with the 401/403 status.
C12_FailedRefreshClearsStore ==
    \A c \in AllCalls :
        (last.op = "refreshed" /\ pc[c] = "done") =>
            /\ accessToken = 0
            /\ refreshToken = 0
            /\ result[c].success = FALSE
            /\ result[c].status \in {401, 403}

\* C13: a request() made while the store holds no access token returns
\* success=false at once, without a fetch.
C13_FailFastWithoutToken ==
    \A c \in AllCalls :
        (last.op = "request" /\ last.call = c /\ accessToken = 0) =>
            /\ pc[c] = "done"
            /\ netCalls[c] = 0
            /\ result[c].success = FALSE

\* a Socket object that is connected or trying to connect
Live(t) == transport[t].state \in {"connecting", "connected"}

\* C15: a callback that was registered with on(), saw the channel go down
\* and come back, and was never removed by off() or a teardown, is invoked
\* exactly once by a server event that arrives on the channel's Socket.
C15_InvokedExactlyOnce ==
    \A k \in AppKeys :
        ( /\ last.op = "recv" /\ last.call = socket
          /\ lastSock.event = k[1]
          /\ life[k] = "back" ) =>
            lastSock.calls[k[2]] = 1

\* C16: a callback registered with on() and neither removed by off() nor torn
\* down is in the registry and attached to the channel's Socket, if any.
C16_ListenersSurvive ==
    \A k \in AppKeys :
        Registered(life, k) =>
            /\ k[2] \in listeners[k[1]]
            /\ socket # 0 => transport[socket].handlers[k] >= 1

\* C17: a server event that arrives on any Socket after off(E, f) does not
\* invoke f.
C17_OffSilences ==
    \A k \in AppKeys :
        (last.op = "recv" /\ lastSock.event = k[1] /\ life[k] = "off") =>
            lastSock.calls[k[2]] = 0

\* C19: when an auth:invalid push has just been handled, the channel has no
\* Socket, no Socket object is connected or trying to connect, the registry
\* is empty and the store holds neither token.
C19_AuthInvalidTearsDown ==
    (last.op = "recv" /\ lastSock.event = "auth:invalid") =>
        /\ socket = 0
        /\ \A t \in Transports : ~Live(t)
        /\ listeners = NoListeners
        /\ accessToken = 0
        /\ refreshToken = 0

\* C20: when disconnect() has just returned, the channel has no Socket, no
\* Socket object is connected or trying to connect, and the registry is empty.
C20_DisconnectClears ==
    last.op = "disconnect" =>
        /\ socket = 0
        /\ \A t \in Transports : ~Live(t)
        /\ listeners = NoListeners

\* C14: a token refresh that succeeds while the channel is connected leaves
\* the channel on the same Socket, with the new access token and an
\* unchanged registry; a token refresh that fails leaves the channel without
\* a Socket that is connected or trying to connect.
C14_RefreshReachesChannel ==
    [][ /\ ( /\ \/ last'.op = "axiosRefreshed"
                \/ last'.op = "refreshed" /\ accessToken' = last'.call + 1
             /\ socket # 0
             /\ transport[socket].state = "connected" ) =>
                /\ socket' = socket
                /\ transport'[socket'].state = "connected"
                /\ transport'[socket'].token = accessToken'
                /\ listeners' = listeners
        /\ ( \/ last'.op = "axiosFailed"
             \/ last'.op = "refreshed" /\ accessToken' # last'.call + 1 ) =>
                /\ socket' = 0
                /\ \A t \in Transports :
                      transport'[t].state \notin {"connecting", "connected"}
      ]_vars

\* C18: connect() with a token whose exp claim lies in the past returns null
\* and leaves the handle, the Socket objects and the registry as they were.
C18_ExpiredTokenNoConnect ==
    [][ ( /\ last'.op = "connect"
          /\ JwtExp(lastSock'.token) >= 0
          /\ JwtExp(lastSock'.token) * 1000 < now ) =>
            /\ lastSock'.ret = 0
            /\ socket' = socket
            /\ transport' = transport
            /\ listeners' = listeners
      ]_vars

\* connect() has just turned an expired token away while the channel had a
\* Socket and a registered callback
C18_Witness ==
    /\ last.op = "connect"
    /\ JwtExp(lastSock.token) >= 0
    /\ JwtExp(lastSock.token) * 1000 < now
    /\ lastSock.ret = 0
    /\ socket # 0
    /\ listeners # NoListeners

\* C21: at most one Socket object is connected or trying to connect.
C21_SingleTransport ==
    Cardinality({t \in Transports : Live(t)}) <= 1

\* C23: when connect_error has just fired on the Socket the handle points
\* to, the channel has closed that Socket and dropped the handle exactly if
\* the Socket has seen 5 errors since it was created or last connected.
C23_FiveErrorsThenResume ==
    (last.op = "connect_error" /\ lastSock.ret = last.call) =>
        /\ transport[last.call].state = "closed" <=> transport[last.call].errors >= 5
        /\ socket = 0 <=> transport[last.call].errors >= 5

\* C29: the reconnect-attempt counter never exceeds 5.
C29_CounterBounded ==
    reconnectAttempts <= 5

\* C22: after every handshake the reconnect-attempt counter is zero and, if
\* an active service id is cached, join:service has been emitted for it,
\* whatever on() and off() calls the application made before.
C22_HandshakeResets ==
    last.op = "handshake" =>
        /\ reconnectAttempts = 0
        /\ lastSock.token # 0 => lastSock.ret = lastSock.token

\* C24: an auth:rotated push stores the pushed token, the Socket the handle
\* points to is sent auth:update, and the handle, the Socket objects and the
\* registry stay as they are.
C24_RotatedInPlace ==
    [][(last'.op = "recv" /\ lastSock'.event = "auth:rotated") =>
          /\ accessToken' = lastSock'.token
          /\ accessToken' = RotatedToken
          /\ lastSock'.ret # 0
          /\ lastSock'.ret = socket'
          /\ socket' = socket
          /\ transport' = transport
          /\ listeners' = listeners]_vars

\* C30: every Socket that is connected or connecting has the client's own
\* handlers of auth:invalid, auth:rotated and connect_error attached.
C30_OwnHandlersStay ==
    \A t \in Transports :
        Live(t) =>
            \A ev \in {"auth:invalid", "auth:rotated", "connect_error"} :
                transport[t].handlers[<<ev, Own>>] > 0

\* C25: a request() call issues at most 5 fetches to its endpoint, the fetch
\* in flight is the one of the current attempt (the earlier ones have
\* settled), and every call that has started returns.
C25_RequestTerminates ==
    /\ [](\A c \in AllCalls :
            /\ netCalls[c] <= maxRetries + 1
            /\ pc[c] = "fetch" => netCalls[c] = attempt[c] + 1)
    /\ \A c \in AllCalls :
          (pc[c] \in {"fetch", "sleep", "refresh"}) ~> (pc[c] = "done")

\* a call returns after its fifth fetch
C25_Witness ==
    \E c \in AllCalls :
        /\ pc[c] = "done"
        /\ netCalls[c] = maxRetries + 1
        /\ last.op \in {"429", "neterr", "refreshed"}
        /\ last.call \in {c, refreshCount}

\* C26: a checkAuth run calls apiClient.refreshTokens() only while the
\* explicit-logout flag is not set.
C26_NoRefreshAfterLogout ==
    (last.op = "checkRefresh" /\ netCalls[last.call] > 0) => logoutBlock = 0

\* C27: while the explicit-logout flag is set (from logout() to the next
\* login()) the store holds no access token.
C27_LoggedOutNoToken ==
    logoutBlock = 1 => accessToken = 0

\* C28: a request() made while the store holds no access token or the
\* explicit-logout flag is set does not return the cached body of a bearer.
C28_NoStaleCache ==
    \A c \in SessionCalls :
        (last.op = "request" /\ last.call = c /\ (accessToken = 0 \/ logoutBlock = 1)) =>
            ~(/\ pc[c] = "done"
              /\ netCalls[c] = 0
              /\ result[c].shape = "raw"
              /\ result[c].body.payload # 0)

====
